---- MODULE Spec2Model ----
(***************************************************************************)
(* A model of the news search application: the browser-side fetch wrapper  *)
(* (src/src/services/newsApi.js) and the serverless proxy handler          *)
(* (src/api/news.js).                                                      *)
(*                                                                         *)
(* Strings are sequences of tokens (characters for a topic, words for a    *)
(* message); a JSON value is a record [t |-> type, v |-> sequence of       *)
(* strings]; a JSON object is a function from its keys to JSON values.     *)
(***************************************************************************)
EXTENDS Naturals, Sequences, FiniteSets, TLC

VARIABLES API_KEY, client, serverKey, proxy, app, bar, item

vars == <<API_KEY, client, serverKey, proxy, app, bar, item>>

\* ------------------------------------------------------------------ bounds

MaxTopicLen == 3
MaxArticles == 2

\* ----------------------------------------------------------------- strings

\* String.prototype.includes
Includes(s, sub) ==
  \E i \in 0..(Len(s) - Len(sub)) : SubSeq(s, i + 1, i + Len(sub)) = sub

WhiteSpace == {" "}

RECURSIVE TrimStart(_)
TrimStart(s) ==
  IF s /= <<>> /\ Head(s) \in WhiteSpace THEN TrimStart(Tail(s)) ELSE s

RECURSIVE TrimEnd(_)
TrimEnd(s) ==
  IF s /= <<>> /\ s[Len(s)] \in WhiteSpace
  THEN TrimEnd(SubSeq(s, 1, Len(s) - 1))
  ELSE s

\* String.prototype.trim
Trim(s) == TrimEnd(TrimStart(s))

\* encodeURIComponent, one character at a time
EncodeChar(c) ==
  CASE c = " " -> <<"%", "2", "0">>
    [] c = "&" -> <<"%", "2", "6">>
    [] c = "%" -> <<"%", "2", "5">>
    [] OTHER   -> <<c>>

RECURSIVE encodeURIComponent(_)
encodeURIComponent(s) ==
  IF s = <<>> THEN <<>> ELSE EncodeChar(Head(s)) \o encodeURIComponent(Tail(s))

\* -------------------------------------------------------------------- JSON

Undefined == [t |-> "undefined", v |-> <<>>]
Null == [t |-> "null", v |-> <<>>]
JStr(s) == [t |-> "string", v |-> s]
JArr(a) == [t |-> "array", v |-> a]
JObj == [t |-> "object", v |-> <<>>]

\* JavaScript truthiness: !x is ~Truthy(x)
Truthy(x) ==
  CASE x.t \in {"undefined", "null"} -> FALSE
    [] x.t = "string"                -> x.v /= <<>>
    [] OTHER                         -> TRUE

\* obj.key: undefined when the object has no such property
Get(obj, key) == IF key \in DOMAIN obj THEN obj[key] ELSE Undefined

\* x.length === 0 (strings and arrays have a length; on an object it is undefined)
LengthIsZero(x) == x.t \in {"string", "array"} /\ Len(x.v) = 0

\* An object literal with the given properties, leaving out the undefined ones
MkObject(status, message, articles) ==
  LET field(k) == CASE k = "status"  -> status
                    [] k = "message" -> message
                    [] OTHER         -> articles
      keys == {k \in {"status", "message", "articles"} : field(k) /= Undefined}
  IN  [k \in keys |-> field(k)]

EmptyObject == [k \in {} |-> Undefined]

\* The text of a response body: not JSON at all, or a JSON text (the literal null
\* or an object) written compactly or with insignificant white space.
InvalidBody == [kind |-> "invalid", fmt |-> "compact", obj |-> EmptyObject]
NullBody(fmt) == [kind |-> "null", fmt |-> fmt, obj |-> EmptyObject]
ObjectBody(fmt, obj) == [kind |-> "object", fmt |-> fmt, obj |-> obj]

\* JSON.stringify, as res.json(data) applies it: the compact text of the value
Stringify(kind, obj) == [kind |-> kind, fmt |-> "compact", obj |-> obj]

\* -------------------------------------------------------------- error values

MkError(name, message) == [name |-> name, message |-> message]
NoError == MkError("", <<>>)

ApiKeyMissingMsg ==
  <<"API", "key", "is", "missing.", "Please", "configure", "VITE_NEWS_API_KEY",
    "in", "your", ".env", "file">>
EmptyTopicMsg == <<"Search", "topic", "cannot", "be", "empty">>
InvalidKeyMsg ==
  <<"Invalid", "API", "key.", "Please", "check", "your", "NewsAPI.org", "credentials">>
RateLimitMsg ==
  <<"Rate", "limit", "exceeded.", "Please", "try", "again", "later",
    "(100", "requests/day", "limit)">>
ApiErrorMsg(status, statusText) == <<"API", "error:", ToString(status)>> \o statusText
FallbackMsg == <<"An", "error", "occurred", "while", "fetching", "news">>
NetworkMsg ==
  <<"Network", "error.", "Please", "check", "your", "internet", "connection">>

FailedToFetch == <<"Failed", "to", "fetch">>
NetworkErrorWord == <<"NetworkError">>

\* --------------------------------------------------------- upstream responses

Articles == {"a1", "a2"}

RECURSIVE SeqsUpTo(_, _)
SeqsUpTo(S, n) ==
  IF n = 0 THEN {<<>>}
  ELSE LET shorter == SeqsUpTo(S, n - 1)
       IN  shorter \cup {Append(q, x) : q \in {r \in shorter : Len(r) = n - 1}, x \in S}

\* What the upstream may send as the body's article collection: nothing, null, a
\* list of articles, or something that is not a list
ArticleValues ==
  {Undefined, Null, JObj, JStr(<<>>), JStr(<<"x">>)}
    \cup {JArr(a) : a \in SeqsUpTo(Articles, MaxArticles)}

MessageValues ==
  {Undefined, JStr(<<>>), JStr(<<"Your", "API", "key", "is", "invalid">>),
   JStr(<<"Failed", "to", "fetch", "sources">>)}

\* Bodies with the application-level error indicator, bodies without, and the
\* same JSON written with insignificant white space
ErrorObjects ==
  {MkObject(JStr(<<"error">>), m, a) :
     m \in MessageValues, a \in {Undefined, JArr(<<"a1">>)}}

PlainObjects ==
  {MkObject(s, m, a) :
     s \in {Undefined, JStr(<<"ok">>)},
     m \in {Undefined, JStr(<<"Failed", "to", "fetch", "sources">>)},
     a \in ArticleValues}

SpacedObjects ==
  {MkObject(JStr(<<"ok">>), Undefined, JArr(<<"a1", "a2">>)),
   MkObject(JStr(<<"error">>), JStr(<<"Your", "API", "key", "is", "invalid">>), Undefined)}

Bodies ==
  {InvalidBody, NullBody("compact"), NullBody("spaced")}
    \cup {ObjectBody("compact", o) : o \in ErrorObjects \cup PlainObjects}
    \cup {ObjectBody("spaced", o) : o \in SpacedObjects}

\* The bodies sent along with a failure status
FailureBodies ==
  {InvalidBody, NullBody("compact"),
   ObjectBody("compact", MkObject(JStr(<<"ok">>), Undefined, JArr(<<"a1", "a2">>))),
   ObjectBody("spaced",
              MkObject(JStr(<<"error">>), JStr(<<"Your", "API", "key", "is", "invalid">>),
                       Undefined))}

StatusTexts ==
  {<<>>, <<"OK">>, <<"Internal", "Server", "Error">>, <<"NetworkError">>}

Responses ==
  [status : {200, 201}, statusText : {<<>>, <<"OK">>}, body : Bodies]
    \cup [status : {401, 404, 429, 500}, statusText : StatusTexts, body : FailureBodies]

NoResponse == [status |-> 0, statusText |-> <<>>, body |-> InvalidBody]

\* What fetch() rejects with when the network call itself fails: the message is
\* the engine's (Chromium, Firefox, WebKit, Node)
FetchErrors ==
  {MkError("TypeError", <<"Failed", "to", "fetch">>),
   MkError("TypeError", <<"NetworkError", "when", "attempting", "to", "fetch", "resource.">>),
   MkError("TypeError", <<"Load", "failed">>),
   MkError("TypeError", <<"fetch", "failed">>)}

\* ------------------------------------------------- newsApi.js: pure steps

\* response.ok
Ok(response) == response.status \in 200..299

\* The error the "Handle HTTP errors" branch throws
HttpError(response) ==
  IF response.status = 401 THEN MkError("Error", InvalidKeyMsg)
  ELSE IF response.status = 429 THEN MkError("Error", RateLimitMsg)
  ELSE MkError("Error", ApiErrorMsg(response.status, response.statusText))

\* response.json(): the parsed value, or a SyntaxError
JsonParses(body) == body.kind /= "invalid"
SyntaxError == MkError("SyntaxError", <<"Unexpected", "token">>)
NullTypeError ==
  MkError("TypeError", <<"Cannot", "read", "properties", "of", "null">>)

\* How a block of code ends: by returning a value or by throwing an error
Returns(value) == [tag |-> "return", value |-> value, error |-> NoError, origin |-> "none"]
Throws(error, origin) == [tag |-> "throw", value |-> Undefined, error |-> error, origin |-> origin]
Pending == [tag |-> "pending", value |-> Undefined, error |-> NoError, origin |-> "none"]

\* data.message || 'An error occurred while fetching news'
BodyErrorMessage(obj) ==
  IF Truthy(Get(obj, "message")) THEN Get(obj, "message").v ELSE FallbackMsg

\* The collection handed back as it came, with no "no results" branch
ArticlesOrEmpty_Unguarded(obj) == Get(obj, "articles")

\* The collection handed back newest-last instead of in upstream order
RECURSIVE Reverse(_)
Reverse(q) == IF q = <<>> THEN <<>> ELSE Append(Reverse(Tail(q)), Head(q))

ArticlesOrEmpty_Reversed(obj) ==
  IF ~Truthy(Get(obj, "articles")) \/ LengthIsZero(Get(obj, "articles"))
  THEN JArr(<<>>)
  ELSE [Get(obj, "articles") EXCEPT !.v = Reverse(@)]

\* The article collection handed back: [] when it is falsy or has length 0
ArticlesOrEmpty(obj) ==
  IF ~Truthy(Get(obj, "articles")) \/ LengthIsZero(Get(obj, "articles"))
  THEN JArr(<<>>)
  ELSE Get(obj, "articles")

\* The rest of the try block once response.json() has resolved with data
NormalizeData(kind, obj) ==
  IF kind = "null" THEN Throws(NullTypeError, "type")
  ELSE IF Get(obj, "status") = JStr(<<"error">>)
  THEN Throws(MkError("Error", BodyErrorMessage(obj)), "body")
  ELSE Returns(ArticlesOrEmpty(obj))

\* The try block from the resolved response on
HandleResponse(response) ==
  IF ~Ok(response) THEN Throws(HttpError(response), "http")
  ELSE IF ~JsonParses(response.body) THEN Throws(SyntaxError, "json")
  ELSE NormalizeData(response.body.kind, response.body.obj)

\* The catch block: what reaches the caller when the try block threw error
IsNetworkMessage(message) ==
  Includes(message, FailedToFetch) \/ Includes(message, NetworkErrorWord)

CatchBlock(error) ==
  IF IsNetworkMessage(error.message) THEN MkError("Error", NetworkMsg) ELSE error

\* A try block's completion, passed through the catch block
ThroughCatch(completion) ==
  IF completion.tag = "throw"
  THEN Throws(CatchBlock(completion.error), completion.origin)
  ELSE completion

\* ------------------------------------------------ newsApi.js: the two calls

BASE_URL == <<"https://newsapi.org/v2">>

Param(name, value) == [name |-> name, value |-> value]
Header(name, value) == [name |-> name, value |-> value]

\* new Date(), in days; toISOString() of a day
Clock == {19000, 19001}
ToISOString(day) == <<ToString(day)>>

\* fetch(url, {headers: {'X-Api-Key': API_KEY}}): the url's query string is the
\* text after the "?", as the template literal writes it
Request(path, search, key) ==
  [base |-> BASE_URL, path |-> path, search |-> search,
   headers |-> <<Header("X-Api-Key", key.v)>>]

\* A request for the headlines with no from parameter and no country
TopHeadlinesRequest_NoCountry(now) ==
  Request("top-headlines", <<"pageSize", "=", "10">>, API_KEY)

\* `${BASE_URL}/top-headlines?country=us&pageSize=10&from=${from}`
TopHeadlinesRequest(now) ==
  Request("top-headlines",
          <<"country", "=", "us", "&", "pageSize", "=", "10", "&", "from", "=">>
            \o ToISOString(now - 1),
          API_KEY)

\* The topic put into the url as it is, not encoded
NewsRequest_Unencoded(topic) ==
  Request("everything",
          <<"q", "=">> \o topic
            \o <<"&", "pageSize", "=", "10", "&", "sortBy", "=", "publishedAt",
                 "&", "language", "=", "en">>,
          API_KEY)

\* `${BASE_URL}/everything?q=${encodeURIComponent(topic)}&pageSize=10&sortBy=publishedAt&language=en`
NewsRequest(topic) ==
  Request("everything",
          <<"q", "=">> \o encodeURIComponent(topic)
            \o <<"&", "pageSize", "=", "10", "&", "sortBy", "=", "publishedAt",
                 "&", "language", "=", "en">>,
          API_KEY)

TopicChars == {" ", "a", "&", "%"}
Topics == SeqsUpTo(TopicChars, MaxTopicLen)

\* The check without its trim
TopicIsEmpty_NoTrim(topic) == topic = <<>>

\* !topic || topic.trim() === ''
TopicIsEmpty(topic) == topic = <<>> \/ Trim(topic) = <<>>

IdleClient ==
  [pc |-> "idle", fn |-> "none", topic |-> <<>>, requests |-> <<>>,
   response |-> NoResponse, raised |-> Pending, outcome |-> Pending]

\* A failed validation that records its error and fetches all the same
FailsEarly_ThenFetches(fn, topic, error, origin) ==
  [IdleClient EXCEPT !.pc = "awaitFetch", !.fn = fn, !.topic = topic,
                     !.requests = <<Request(<<"everything">>, <<>>, API_KEY)>>,
                     !.raised = Throws(error, origin)]

\* A call that ends before its try block: nothing catches the error
FailsEarly(fn, topic, error, origin) ==
  [IdleClient EXCEPT !.pc = "done", !.fn = fn, !.topic = topic,
                     !.raised = Throws(error, origin),
                     !.outcome = Throws(error, origin)]

\* A try block that fetches once more when its first attempt threw
Settle_RetryOnce(completion) ==
  IF completion.tag = "throw" /\ Len(client.requests) = 1
  THEN [client EXCEPT !.pc = "awaitFetch",
                      !.requests = Append(@, client.requests[1])]
  ELSE [client EXCEPT !.pc = "done", !.raised = completion,
                      !.outcome = ThroughCatch(completion)]

\* The try block ends with completion: the caller gets it through the catch block
Settle(completion) ==
  [client EXCEPT !.pc = "done", !.raised = completion,
                 !.outcome = ThroughCatch(completion)]

\* fetchNews(topic), up to its await of fetch
CallFetchNews(topic) ==
  /\ client.pc = "idle"
  /\ client' =
       IF ~Truthy(API_KEY)
       THEN FailsEarly("fetchNews", topic, MkError("Error", ApiKeyMissingMsg), "config")
       ELSE IF TopicIsEmpty(topic)
       THEN FailsEarly("fetchNews", topic, MkError("Error", EmptyTopicMsg), "validation")
       ELSE [IdleClient EXCEPT !.pc = "awaitFetch", !.fn = "fetchNews", !.topic = topic,
                               !.requests = <<NewsRequest(topic)>>]
  /\ UNCHANGED <<API_KEY, serverKey, proxy, app, bar, item>>

\* fetchTopHeadlines(), up to its await of fetch
CallFetchTopHeadlines(now) ==
  /\ client.pc = "idle"
  /\ client' =
       IF ~Truthy(API_KEY)
       THEN FailsEarly("fetchTopHeadlines", <<>>, MkError("Error", ApiKeyMissingMsg), "config")
       ELSE [IdleClient EXCEPT !.pc = "awaitFetch", !.fn = "fetchTopHeadlines",
                               !.requests = <<TopHeadlinesRequest(now)>>]
  /\ UNCHANGED <<API_KEY, serverKey, proxy, app, bar, item>>

\* The awaited fetch rejects: the network call itself failed
FetchRejects(error) ==
  /\ client.pc = "awaitFetch"
  /\ client' = Settle(Throws(error, "fetch"))
  /\ UNCHANGED <<API_KEY, serverKey, proxy, app, bar, item>>

\* The awaited fetch resolves with the upstream's response; a non-2xx one throws,
\* a 2xx one goes on to await response.json()
FetchResolves(response) ==
  /\ client.pc = "awaitFetch"
  /\ client' =
       IF ~Ok(response)
       THEN [Settle(HandleResponse(response)) EXCEPT !.response = response]
       ELSE [client EXCEPT !.pc = "awaitJson", !.response = response]
  /\ UNCHANGED <<API_KEY, serverKey, proxy, app, bar, item>>

\* The awaited response.json() settles and the try block runs to its end
JsonSettles ==
  /\ client.pc = "awaitJson"
  /\ client' = Settle(HandleResponse(client.response))
  /\ UNCHANGED <<API_KEY, serverKey, proxy, app, bar, item>>

\* The caller has the outcome; the next call starts afresh
ClientReturn ==
  /\ client.pc = "done"
  /\ client' = IdleClient
  /\ UNCHANGED <<API_KEY, serverKey, proxy, app, bar, item>>

\* ------------------------------------------------------- api/news.js: handler

Methods == {"GET", "OPTIONS", "POST", "PUT", "DELETE", "HEAD"}

\* req.query: the parameters in the order they came, each with its value (one
\* string) or values (an array, when the parameter is repeated)
Entry(name, vals) == [name |-> name, vals |-> vals]

EndpointEntries ==
  {<<>>, <<Entry("endpoint", <<"top-headlines">>)>>,
   <<Entry("endpoint", <<"everything">>)>>, <<Entry("endpoint", <<"sources">>)>>,
   <<Entry("endpoint", <<"everything", "top-headlines">>)>>}

QEntries == {<<>>, <<Entry("q", <<"foo">>)>>, <<Entry("q", <<"foo", "bar">>)>>}

PageSizeEntries == {<<>>, <<Entry("pageSize", <<"10">>)>>}

Queries ==
  {e \o q \o p : e \in EndpointEntries, q \in QEntries, p \in PageSizeEntries}
    \cup {q \o e \o p : e \in EndpointEntries, q \in QEntries, p \in PageSizeEntries}

ProxyRequests == [method : Methods, query : Queries]

NoRequest == [method |-> "", query |-> <<>>]

\* const { endpoint, ...params } = req.query
EndpointOf(query) ==
  LET found == {i \in 1..Len(query) : query[i].name = "endpoint"}
  IN  IF found = {} THEN <<>> ELSE query[CHOOSE i \in found : TRUE].vals

RECURSIVE RestParams(_)
RestParams(query) ==
  IF query = <<>> THEN <<>>
  ELSE IF Head(query).name = "endpoint" THEN RestParams(Tail(query))
  ELSE <<Head(query)>> \o RestParams(Tail(query))

\* An allow-list that also lets the sources endpoint through
validEndpoints_WithSources == {"top-headlines", "everything", "sources"}

validEndpoints == {"top-headlines", "everything"}

\* A check that takes a repeated endpoint parameter when one of its values is listed
EndpointIsValid_AnyListed(endpoint) ==
  \E i \in 1..Len(endpoint) : endpoint[i] \in validEndpoints

\* validEndpoints.includes(endpoint): only a single string can be in the list
EndpointIsValid(endpoint) == Len(endpoint) = 1 /\ endpoint[1] \in validEndpoints

\* String(value), as searchParams.append applies it: an array is joined by commas
RECURSIVE JoinComma(_)
JoinComma(vals) ==
  IF Len(vals) <= 1 THEN vals
  ELSE <<Head(vals), ",">> \o JoinComma(Tail(vals))

\* Object.keys(params).forEach(key => apiUrl.searchParams.append(key, params[key]))
RECURSIVE AppendParams(_)
AppendParams(params) ==
  IF params = <<>> THEN <<>>
  ELSE <<Param(Head(params).name, JoinComma(Head(params).vals))>>
         \o AppendParams(Tail(params))

\* A header's value as fetch sends it: the string, and "undefined" for undefined
HeaderValue(key) == IF key = Undefined THEN <<"undefined">> ELSE key.v

\* fetch(apiUrl.toString(), {headers: {'X-Api-Key': process.env.VITE_NEWS_API_KEY}})
UpstreamRequest(query) ==
  [base |-> BASE_URL, path |-> EndpointOf(query)[1],
   query |-> AppendParams(RestParams(query)),
   headers |-> <<Header("X-Api-Key", HeaderValue(serverKey))>>]

CorsHeaders ==
  <<Header("Access-Control-Allow-Origin", <<"*">>),
    Header("Access-Control-Allow-Methods", <<"GET,", "OPTIONS">>),
    Header("Access-Control-Allow-Headers", <<"Content-Type">>)>>

EmptyBody == [kind |-> "empty", fmt |-> "compact", obj |-> EmptyObject]

\* res.status(code).end() and res.status(code).json(payload)
NoReply == [sent |-> FALSE, status |-> 0, headers |-> <<>>, body |-> EmptyBody]
Reply(status, headers, body) ==
  [sent |-> TRUE, status |-> status, headers |-> headers, body |-> body]

MethodNotAllowedPayload ==
  Stringify("object", [error |-> JStr(<<"Method", "not", "allowed">>)])
InvalidEndpointPayload ==
  Stringify("object", [error |-> JStr(<<"Invalid", "endpoint">>)])
\* A payload that also reports the headers of the failed request
FailurePayload_WithHeaders(error) ==
  Stringify("object", [error |-> JStr(<<"Failed", "to", "fetch", "news">>),
                       message |-> JStr(error.message \o HeaderValue(serverKey))])

FailurePayload(error) ==
  Stringify("object", [error |-> JStr(<<"Failed", "to", "fetch", "news">>),
                       message |-> JStr(error.message)])

\* A preflight check that never takes the request for a preflight
IsPreflight_Never(method) == FALSE

\* req.method === 'OPTIONS'
IsPreflight(method) == method = "OPTIONS"

\* A method check that lets HEAD through along with GET
MethodAllowed_GetOrHead(method) == method \in {"GET", "HEAD"}

\* req.method !== 'GET' is what the handler refuses (after the preflight)
MethodAllowed(method) == method = "GET"

\* The parsed data sent with a fixed 200 instead of the upstream's status
ForwardedReply_Always200(response, headers) ==
  Reply(200, headers, Stringify(response.body.kind, response.body.obj))

\* res.status(response.status).json(data)
ForwardedReply(response, headers) ==
  Reply(response.status, headers, Stringify(response.body.kind, response.body.obj))

IdleProxy ==
  [pc |-> "idle", req |-> NoRequest, headers |-> <<>>, upstream |-> <<>>,
   response |-> NoResponse, reply |-> NoReply, sends |-> 0, log |-> <<>>]

\* A catch block that answers on a response whose headers were reset
ProxyCatch_NoHeaders(error) ==
  [proxy EXCEPT !.pc = "done",
                !.log = Append(@, error),
                !.sends = @ + 1,
                !.reply = Reply(500, <<>>, FailurePayload(error))]

\* The catch block: log the error and answer 500
ProxyCatch(error) ==
  [proxy EXCEPT !.pc = "done",
                !.log = Append(@, error),
                !.sends = @ + 1,
                !.reply = Reply(500, proxy.headers, FailurePayload(error))]

\* handler(req, res), up to its await of fetch
HandlerInvoke(req) ==
  /\ proxy.pc = "idle"
  /\ proxy' =
       LET started == [IdleProxy EXCEPT !.req = req, !.headers = CorsHeaders]
       IN  IF IsPreflight(req.method)
           THEN [started EXCEPT !.pc = "done",
                                !.sends = @ + 1,
                                !.reply = Reply(200, CorsHeaders, EmptyBody)]
           ELSE IF ~MethodAllowed(req.method)
           THEN [started EXCEPT !.pc = "done",
                                !.sends = @ + 1,
                                !.reply = Reply(405, CorsHeaders, MethodNotAllowedPayload)]
           ELSE IF ~EndpointIsValid(EndpointOf(req.query))
           THEN [started EXCEPT !.pc = "done",
                                !.sends = @ + 1,
                                !.reply = Reply(400, CorsHeaders, InvalidEndpointPayload)]
           ELSE [started EXCEPT !.pc = "awaitFetch",
                                !.upstream = <<UpstreamRequest(req.query)>>]
  /\ UNCHANGED <<API_KEY, client, serverKey, app, bar, item>>

\* The awaited upstream fetch rejects
ProxyFetchRejects(error) ==
  /\ proxy.pc = "awaitFetch"
  /\ proxy' = ProxyCatch(error)
  /\ UNCHANGED <<API_KEY, client, serverKey, app, bar, item>>

\* The awaited upstream fetch resolves; the handler awaits response.json()
ProxyFetchResolves(response) ==
  /\ proxy.pc = "awaitFetch"
  /\ proxy' = [proxy EXCEPT !.pc = "awaitJson", !.response = response]
  /\ UNCHANGED <<API_KEY, client, serverKey, app, bar, item>>

\* The awaited response.json() settles: the parsed data is sent with the
\* upstream's status, or the SyntaxError is caught
ProxyJsonSettles ==
  /\ proxy.pc = "awaitJson"
  /\ proxy' =
       IF JsonParses(proxy.response.body)
       THEN [proxy EXCEPT !.pc = "done",
                          !.sends = @ + 1,
                          !.reply = ForwardedReply(proxy.response, proxy.headers)]
       ELSE ProxyCatch(SyntaxError)
  /\ UNCHANGED <<API_KEY, client, serverKey, app, bar, item>>

\* The response is out; the next invocation starts afresh
ProxyReturn ==
  /\ proxy.pc = "done"
  /\ proxy' = IdleProxy
  /\ UNCHANGED <<API_KEY, client, serverKey, app, bar, item>>

\* ------------------------------------------------ App.jsx: the page's state

MaxPending == 2

\* How a call of fetchNews or fetchTopHeadlines can end, once it has fetched
FetchOutcomes ==
  {ThroughCatch(HandleResponse(response)) : response \in Responses}
    \cup {ThroughCatch(Throws(error, "fetch")) : error \in FetchErrors}

FetchNewsOutcomes(topic) ==
  IF ~Truthy(API_KEY) THEN {Throws(MkError("Error", ApiKeyMissingMsg), "config")}
  ELSE IF TopicIsEmpty(topic) THEN {Throws(MkError("Error", EmptyTopicMsg), "validation")}
  ELSE FetchOutcomes

FetchTopHeadlinesOutcomes ==
  IF ~Truthy(API_KEY) THEN {Throws(MkError("Error", ApiKeyMissingMsg), "config")}
  ELSE FetchOutcomes

\* The topics the search bar hands to handleSearch
AppTopics == {<<"a">>, <<"&">>}

\* useState([]), useState(false), useState(null), useState(false); pending holds
\* the handlers waiting at their await, last the outcome of the call that
\* completed most recently
IdleApp ==
  [articles |-> JArr(<<>>), loading |-> FALSE, error |-> Null, hasSearched |-> FALSE,
   pending |-> <<>>, last |-> Pending]

PendingCall(fn, topic) == [fn |-> fn, topic |-> topic]

\* setLoading(true); setError(null); setHasSearched(true); then the await
ResetState(state, call) ==
  [state EXCEPT !.loading = TRUE, !.error = Null, !.hasSearched = TRUE,
                !.pending = Append(@, call)]

Without(seq, i) == SubSeq(seq, 1, i - 1) \o SubSeq(seq, i + 1, Len(seq))

\* A handler that clears loading at the end of its try block, not in a finally
Resume_NoFinally(state, i, outcome) ==
  LET settled ==
        IF outcome.tag = "return"
        THEN [state EXCEPT !.articles = outcome.value, !.loading = FALSE]
        ELSE [state EXCEPT !.error = JStr(outcome.error.message),
                           !.articles = JArr(<<>>)]
  IN [settled EXCEPT !.pending = Without(@, i), !.last = outcome]

\* The handler's code after its await: try, catch and finally
Resume(state, i, outcome) ==
  LET settled ==
        IF outcome.tag = "return"
        THEN [state EXCEPT !.articles = outcome.value]
        ELSE [state EXCEPT !.error = JStr(outcome.error.message),
                           !.articles = JArr(<<>>)]
  IN [settled EXCEPT !.loading = FALSE, !.pending = Without(@, i),
                     !.last = outcome]

\* handleSearch(topic), up to its await of fetchNews(topic)
HandleSearch(topic) ==
  /\ Len(app.pending) < MaxPending
  /\ app' = ResetState(app, PendingCall("fetchNews", topic))
  /\ UNCHANGED <<API_KEY, client, serverKey, proxy, bar, item>>

\* handleLucky(), up to its await of fetchTopHeadlines()
HandleLucky ==
  /\ Len(app.pending) < MaxPending
  /\ app' = ResetState(app, PendingCall("fetchTopHeadlines", <<>>))
  /\ UNCHANGED <<API_KEY, client, serverKey, proxy, bar, item>>

\* A waiting handleSearch gets the outcome of its fetchNews and runs to its end
HandleSearchResumes(i) ==
  /\ i \in DOMAIN app.pending
  /\ app.pending[i].fn = "fetchNews"
  /\ \E outcome \in FetchNewsOutcomes(app.pending[i].topic) :
       app' = Resume(app, i, outcome)
  /\ UNCHANGED <<API_KEY, client, serverKey, proxy, bar, item>>

\* A waiting handleLucky gets the outcome of its fetchTopHeadlines and runs to its end
HandleLuckyResumes(i) ==
  /\ i \in DOMAIN app.pending
  /\ app.pending[i].fn = "fetchTopHeadlines"
  /\ \E outcome \in FetchTopHeadlinesOutcomes :
       app' = Resume(app, i, outcome)
  /\ UNCHANGED <<API_KEY, client, serverKey, proxy, bar, item>>

\* What the page shows below the search bar: the welcome text before the first
\* search, then NewsList's states in the order it tests them
View(shows, message, articles) ==
  [shows |-> shows, message |-> message, articles |-> articles]

NewsList(articles, loading, error) ==
  IF loading THEN View("loading", <<>>, <<>>)
  ELSE IF Truthy(error) THEN View("error", error.v, <<>>)
  ELSE IF LengthIsZero(articles) THEN View("empty", <<>>, <<>>)
  ELSE View("results", <<>>, articles.v)

Render(state) ==
  IF state.hasSearched
  THEN NewsList(state.articles, state.loading, state.error)
  ELSE View("welcome", <<>>, <<>>)

\* ------------------------------------------- SearchBar.jsx: the search bar

MaxInputLen == 2

\* What the user can type (or paste) into the topic input
InputChars == {" ", "a"}
Inputs == SeqsUpTo(InputChars, MaxInputLen)
Keys == InputChars \cup {"Enter"}

\* useState(''); action and started record the user's last action and the
\* topics it handed to onSearch
IdleBar == [inputValue |-> <<>>, action |-> "none", started |-> <<>>]

\* The page: the App's state and the search bar's
Page(appState, barState) == [app |-> appState, bar |-> barState]

\* onSearch={handleSearch}: the App's handler runs up to its await
onSearch(page, topic) ==
  Page(ResetState(page.app, PendingCall("fetchNews", topic)),
       [page.bar EXCEPT !.started = Append(@, topic)])

\* onLucky={handleLucky}
onLucky(page) ==
  Page(ResetState(page.app, PendingCall("fetchTopHeadlines", <<>>)), page.bar)

\* A submit handler that searches for the input as it was typed
handleSubmit_Untrimmed(page) ==
  IF page.bar.inputValue /= <<>>
  THEN onSearch(page, page.bar.inputValue)
  ELSE page

\* if (inputValue.trim()) onSearch(inputValue.trim())
handleSubmit(page) ==
  IF Truthy(JStr(Trim(page.bar.inputValue)))
  THEN onSearch(page, Trim(page.bar.inputValue))
  ELSE page

\* if (e.key === 'Enter' && inputValue.trim()) onSearch(inputValue.trim())
handleKeyPress(page, key) ==
  IF key = "Enter" /\ Truthy(JStr(Trim(page.bar.inputValue)))
  THEN onSearch(page, Trim(page.bar.inputValue))
  ELSE page

\* onChange: setInputValue(e.target.value)
onChange(page, value) == Page(page.app, [page.bar EXCEPT !.inputValue = value])

\* disabled={!inputValue.trim()} and disabled={inputValue.trim()}
ShowDisabled(inputValue) == ~Truthy(JStr(Trim(inputValue)))
LuckyDisabled(inputValue) == Truthy(JStr(Trim(inputValue)))

\* The user's action begins: nothing handed to onSearch yet
Begin(action) == Page(app, [bar EXCEPT !.action = action, !.started = <<>>])

\* A key pressed in the topic input. The keypress event runs handleKeyPress;
\* then the browser does the key's default action: a character is inserted
\* (onChange), Enter submits the form through its submit button unless that
\* button is disabled (handleSubmit).
PressKey(key) ==
  LET pressed == handleKeyPress(Begin(IF key = "Enter" THEN "enter" ELSE "key"), key)
      page == IF key /= "Enter"
              THEN onChange(pressed, pressed.bar.inputValue \o <<key>>)
              ELSE IF ShowDisabled(pressed.bar.inputValue) THEN pressed
              ELSE handleSubmit(pressed)
  IN /\ key = "Enter" \/ Len(bar.inputValue) < MaxInputLen
     /\ Len(page.app.pending) <= MaxPending
     /\ app' = page.app
     /\ bar' = page.bar
     /\ UNCHANGED <<API_KEY, client, serverKey, proxy, item>>

\* The input's text replaced at once (paste, cut, delete)
Change(value) ==
  /\ value /= bar.inputValue
  /\ LET page == onChange(Begin("change"), value)
     IN app' = page.app /\ bar' = page.bar
  /\ UNCHANGED <<API_KEY, client, serverKey, proxy, item>>

\* A click on Show: the form's submit event, unless the button is disabled
ClickShow ==
  /\ ~ShowDisabled(bar.inputValue)
  /\ LET page == handleSubmit(Begin("show"))
     IN /\ Len(page.app.pending) <= MaxPending
        /\ app' = page.app
        /\ bar' = page.bar
  /\ UNCHANGED <<API_KEY, client, serverKey, proxy, item>>

\* A click on I'm Feeling Lucky, unless the button is disabled: handleLucky
ClickLucky ==
  /\ ~LuckyDisabled(bar.inputValue)
  /\ LET page == onLucky(Begin("lucky"))
     IN /\ Len(page.app.pending) <= MaxPending
        /\ app' = page.app
        /\ bar' = page.bar
  /\ UNCHANGED <<API_KEY, client, serverKey, proxy, item>>

\* ------------------------------------------- NewsItem.jsx: one article's card

\* An article as the upstream sends it: title and url, and the optional fields,
\* each absent (undefined), null or set; source is an object with or without a
\* name (its v is the name), publishedAt a timestamp or some other string
Article(description, urlToImage, source, publishedAt) ==
  [title |-> JStr(<<"Title">>), url |-> JStr(<<"https://example.com/1">>),
   description |-> description, urlToImage |-> urlToImage,
   source |-> source, publishedAt |-> publishedAt]

Timestamp == <<"2024-01-15T10:00:00Z">>

ArticleRecords ==
  {Article(d, i, s, p) :
     d \in {Undefined, Null, JStr(<<>>), JStr(<<"Text">>)},
     i \in {Undefined, Null, JStr(<<"https://example.com/1.png">>)},
     s \in {Undefined, Null, JObj, [t |-> "object", v |-> <<"BBC">>]},
     p \in {Undefined, Null, JStr(Timestamp), JStr(<<"soon">>)}}

placeholderImage == <<"https://via.placeholder.com/300x200?text=No+Image">>

\* new Date(dateString).toLocaleDateString('en-US', ...): undefined and unparsable
\* strings give an invalid date, null gives the epoch
formatDate(dateString) ==
  CASE dateString.t = "null" -> <<"Jan", "1,", "1970">>
    [] dateString = JStr(Timestamp) -> <<"Jan", "15,", "2024">>
    [] OTHER -> <<"Invalid", "Date">>

\* What the card shows
Card(src, description, source, date) ==
  [src |-> src, description |-> description, source |-> source, date |-> date]
NoCard == Card(<<>>, <<>>, <<>>, <<>>)

NotRendered == [tag |-> "pending", card |-> NoCard, error |-> NoError]
Rendered(card) == [tag |-> "return", card |-> card, error |-> NoError]
Crashed(error) == [tag |-> "throw", card |-> NoCard, error |-> error]

UndefinedTypeError ==
  MkError("TypeError", <<"Cannot", "read", "properties", "of", "undefined">>)

\* NewsItem({ article }): article.source.name throws when source is undefined or
\* null; the other fields are read from article itself
NewsItem(article) ==
  IF article.source.t = "undefined" THEN Crashed(UndefinedTypeError)
  ELSE IF article.source.t = "null" THEN Crashed(NullTypeError)
  ELSE Rendered(Card(IF Truthy(article.urlToImage) THEN article.urlToImage.v
                     ELSE placeholderImage,
                     IF Truthy(article.description) THEN article.description.v
                     ELSE <<"No", "description", "available">>,
                     article.source.v,
                     formatDate(article.publishedAt)))

IdleItem == [article |-> Article(Undefined, Undefined, Undefined, Undefined),
             rendered |-> NotRendered]

\* React renders the card of the article
RenderItem ==
  /\ item.rendered.tag = "pending"
  /\ item' = [item EXCEPT !.rendered = NewsItem(item.article)]
  /\ UNCHANGED <<API_KEY, client, serverKey, proxy, app, bar>>

\* The image fails to load: onError puts the placeholder in its place
ImageError ==
  /\ item.rendered.tag = "return"
  /\ item.rendered.card.src /= placeholderImage
  /\ item' = [item EXCEPT !.rendered.card.src = placeholderImage]
  /\ UNCHANGED <<API_KEY, client, serverKey, proxy, app, bar>>

\* ------------------------------------------------------------ specifications

\* The credential is configuration, set or not before anything runs
KeyValues == {Undefined, JStr(<<"k3y">>)}

\* The browser build: its credential is set or not; no handler runs there
ClientInit ==
  /\ API_KEY \in KeyValues
  /\ serverKey = Undefined
  /\ client = IdleClient
  /\ proxy = IdleProxy
  /\ app = IdleApp
  /\ bar = IdleBar
  /\ item = IdleItem

\* The serverless function: its environment holds the credential or not
ProxyInit ==
  /\ API_KEY = Undefined
  /\ serverKey \in KeyValues
  /\ client = IdleClient
  /\ proxy = IdleProxy
  /\ app = IdleApp
  /\ bar = IdleBar
  /\ item = IdleItem

\* The page in the browser: its credential is set or not
AppInit ==
  /\ API_KEY \in KeyValues
  /\ serverKey = Undefined
  /\ client = IdleClient
  /\ proxy = IdleProxy
  /\ app = IdleApp
  /\ bar = IdleBar
  /\ item = IdleItem

ClientNext ==
  \/ \E topic \in Topics : CallFetchNews(topic)
  \/ \E now \in Clock : CallFetchTopHeadlines(now)
  \/ \E error \in FetchErrors : FetchRejects(error)
  \/ \E response \in Responses : FetchResolves(response)
  \/ JsonSettles
  \/ ClientReturn

ProxyNext ==
  \/ \E req \in ProxyRequests : HandlerInvoke(req)
  \/ \E error \in FetchErrors : ProxyFetchRejects(error)
  \/ \E response \in Responses : ProxyFetchResolves(response)
  \/ ProxyJsonSettles
  \/ ProxyReturn

AppNext ==
  \/ \E topic \in AppTopics : HandleSearch(topic)
  \/ HandleLucky
  \/ \E i \in 1..MaxPending : HandleSearchResumes(i)
  \/ \E i \in 1..MaxPending : HandleLuckyResumes(i)

ClientSpec == ClientInit /\ [][ClientNext]_vars

ProxySpec == ProxyInit /\ [][ProxyNext]_vars

AppSpec == AppInit /\ [][AppNext]_vars

\* One call at a time, of either strategy: the browser's functions and the
\* handler share no state, so a call of one runs while the other is idle
CallInit ==
  /\ API_KEY \in KeyValues
  /\ serverKey \in KeyValues
  /\ client = IdleClient
  /\ proxy = IdleProxy
  /\ app = IdleApp
  /\ bar = IdleBar
  /\ item = IdleItem

CallNext ==
  \/ proxy.pc = "idle" /\ ClientNext
  \/ client.pc = "idle" /\ ProxyNext

CallSpec == CallInit /\ [][CallNext]_vars

\* The App when every outbound call eventually resolves or rejects: a waiting
\* handler is eventually resumed
AppLiveSpec ==
  /\ AppInit /\ [][AppNext]_vars
  /\ \A i \in 1..MaxPending :
       WF_vars(HandleSearchResumes(i)) /\ WF_vars(HandleLuckyResumes(i))

\* One card, for any article of the list
ItemInit ==
  /\ API_KEY \in KeyValues
  /\ serverKey = Undefined
  /\ client = IdleClient
  /\ proxy = IdleProxy
  /\ app = IdleApp
  /\ bar = IdleBar
  /\ item \in [article : ArticleRecords, rendered : {NotRendered}]

ItemNext == RenderItem \/ ImageError

ItemSpec == ItemInit /\ [][ItemNext]_vars

\* The page as the user drives it: the search bar's events and the App's handlers
PageNext ==
  \/ \E key \in Keys : PressKey(key)
  \/ \E value \in Inputs : Change(value)
  \/ ClickShow
  \/ ClickLucky
  \/ \E i \in 1..MaxPending : HandleSearchResumes(i)
  \/ \E i \in 1..MaxPending : HandleLuckyResumes(i)

PageSpec == AppInit /\ [][PageNext]_vars

\* -------------------------------------------------------------------- claims

\* A call of fetchNews or fetchTopHeadlines has ended and the caller has its outcome
ClientDone == client.pc = "done"

\* The call got a response from the upstream
Received == client.response /= NoResponse

\* The response's body, as a JSON object without the error indicator
PlainObjectBody(response) ==
  /\ response.status \in 200..299
  /\ response.body.kind = "object"
  /\ Get(response.body.obj, "status") /= JStr(<<"error">>)

\* C1: for every non-2xx upstream status and every body, the call fails with the
\* error its status alone decides: the invalid-credential error for 401, the
\* rate-limit error for 429, and for any other status the upstream error carrying
\* the status and the status text.
C1_StatusAloneDecidesFailure ==
  (ClientDone /\ Received /\ client.response.status \notin 200..299) =>
    /\ client.outcome.tag = "throw"
    /\ client.outcome.error.message =
         CASE client.response.status = 401 -> InvalidKeyMsg
           [] client.response.status = 429 -> RateLimitMsg
           [] OTHER -> <<"API", "error:", ToString(client.response.status)>>
                         \o client.response.statusText

\* A topic with nothing but white space in it (the empty topic included)
Blank(topic) == \A i \in 1..Len(topic) : topic[i] = " "

\* C2 as stated: fetchNews with an empty or whitespace-only topic fails with the
\* validation error and makes no network call.
C2_BlankTopicIsValidationError ==
  (ClientDone /\ client.fn = "fetchNews" /\ Blank(client.topic)) =>
    /\ client.outcome.tag = "throw"
    /\ client.outcome.error.message = EmptyTopicMsg
    /\ client.requests = <<>>

\* C2 as amended: fetchNews with an empty or whitespace-only topic never makes a
\* network call and fails at once: with the validation error when the credential
\* is configured, with the missing-credential error (checked first) when it is not.
C2_BlankTopicFailsBeforeNetwork ==
  (client.fn = "fetchNews" /\ Blank(client.topic)) =>
    /\ ClientDone
    /\ client.requests = <<>>
    /\ client.outcome.tag = "throw"
    /\ client.outcome.error.message =
         IF API_KEY = Undefined THEN ApiKeyMissingMsg ELSE EmptyTopicMsg

C2_Witness ==
  /\ ClientDone /\ client.fn = "fetchNews"
  /\ client.topic = <<" ", " ">>
  /\ client.outcome.error.message = EmptyTopicMsg
  /\ client.requests = <<>>

\* C3: every rejection of the fetch itself reaches the caller as the network error
\* with its fixed message, and every other unexpected exception (a body that does
\* not parse, a body that is null) reaches the caller unchanged.
C3_FetchRejectionIsNetworkError ==
  ClientDone =>
    /\ client.raised.origin = "fetch" =>
         client.outcome.error = MkError("Error", NetworkMsg)
    /\ client.raised.origin \in {"json", "type"} =>
         client.outcome.error = client.raised.error

\* C4: an error thrown as invalid credential, rate limited or upstream error (for
\* a non-2xx status, or for a body with the error indicator) reaches the caller
\* as it was thrown, whatever the status text and the body's message.
C4_ClassifiedErrorReachesCaller ==
  (ClientDone /\ client.raised.origin \in {"http", "body"}) =>
    client.outcome = client.raised

\* C5: a 2xx response whose body has status "error" fails with the upstream error
\* carrying the body's message, or the fallback message when the body has none
\* (or an empty one); no article list is returned.
C5_ErrorBodyIsUpstreamError ==
  (/\ ClientDone /\ Received
   /\ client.response.status \in 200..299
   /\ client.response.body.kind = "object"
   /\ Get(client.response.body.obj, "status") = JStr(<<"error">>)) =>
    /\ client.outcome.tag = "throw"
    /\ client.outcome.error.message =
         IF Get(client.response.body.obj, "message") \in {Undefined, JStr(<<>>)}
         THEN FallbackMsg
         ELSE Get(client.response.body.obj, "message").v

\* C6: a 2xx response whose body is a JSON object without the error indicator and
\* whose article collection is absent, null or empty makes the call return the
\* empty list, not fail.
C6_NoArticlesIsEmptyList ==
  (/\ ClientDone /\ Received
   /\ PlainObjectBody(client.response)
   /\ Get(client.response.body.obj, "articles")
        \in {Undefined, Null, JArr(<<>>), JStr(<<>>)}) =>
    client.outcome = Returns(JArr(<<>>))

C6_Witness ==
  /\ ClientDone /\ Received
  /\ PlainObjectBody(client.response)
  /\ "articles" \notin DOMAIN client.response.body.obj
  /\ client.fn = "fetchTopHeadlines"
  /\ client.outcome.tag = "return"

\* C7: a 2xx response whose body is a JSON object without the error indicator and
\* carries a list of N >= 1 articles makes the call return exactly that list: the
\* same articles, as many, in the same order.
C7_ArticlesInUpstreamOrder ==
  (/\ ClientDone /\ Received
   /\ PlainObjectBody(client.response)
   /\ Get(client.response.body.obj, "articles").t = "array"
   /\ Len(Get(client.response.body.obj, "articles").v) >= 1) =>
    /\ client.outcome.tag = "return"
    /\ client.outcome.value.t = "array"
    /\ client.outcome.value.v = client.response.body.obj["articles"].v

C7_Witness ==
  /\ ClientDone /\ client.fn = "fetchNews"
  /\ PlainObjectBody(client.response)
  /\ client.outcome.tag = "return"
  /\ \E i \in 1..Len(client.outcome.value.v) :
       /\ i > 1
       /\ client.outcome.value.v[i - 1] = "a2"
       /\ client.outcome.value.v[i] = "a1"

\* The handler has answered a request that it forwarded and the upstream answered
Forwarded == proxy.pc = "done" /\ proxy.response /= NoResponse

\* C8 as stated: the answer to an allowed GET request has the upstream's status
\* and the upstream's body, for every upstream response (the bodies compared as
\* JSON values, which is the least that "the same body" asks).
C8_ProxyForwardsVerbatim ==
  Forwarded =>
    /\ proxy.reply.status = proxy.response.status
    /\ proxy.reply.body.kind = proxy.response.body.kind
    /\ proxy.reply.body.obj = proxy.response.body.obj

\* C8 as amended: when the upstream's body parses as JSON, the answer has the
\* upstream's status and the same JSON value, serialised afresh (so its bytes may
\* differ from the upstream's); when it does not parse, the answer is the 500
\* error payload.
C8_ProxyForwardsParsedJson ==
  Forwarded =>
    IF proxy.response.body.kind = "invalid"
    THEN /\ proxy.reply.status = 500
         /\ "error" \in DOMAIN proxy.reply.body.obj
    ELSE /\ proxy.reply.status = proxy.response.status
         /\ proxy.reply.body.kind = proxy.response.body.kind
         /\ proxy.reply.body.obj = proxy.response.body.obj
         /\ proxy.reply.body.fmt = "compact"

C8_Witness ==
  /\ Forwarded
  /\ proxy.response.status = 404
  /\ proxy.response.body.fmt = "spaced"
  /\ proxy.reply.status = 404
  /\ proxy.reply.body.obj = proxy.response.body.obj

\* The request's endpoint parameter is one of the two allowed endpoints
AllowedEndpoint(query) ==
  \E i \in 1..Len(query) :
    /\ query[i].name = "endpoint"
    /\ query[i].vals \in {<<"top-headlines">>, <<"everything">>}

\* C9 as stated: a request whose endpoint is not an allowed one (or is absent) is
\* answered 400 and no upstream call is made.
C9_BadEndpointIs400 ==
  (proxy.pc = "done" /\ ~AllowedEndpoint(proxy.req.query)) =>
    /\ proxy.reply.status = 400
    /\ proxy.upstream = <<>>

\* C9 as amended: a GET request whose endpoint is not an allowed one (or is
\* absent) is answered 400 with the invalid-endpoint payload, and no request with
\* such an endpoint, whatever its method, leads to an upstream call.
C9_BadEndpointOfGetIs400 ==
  (proxy.pc /= "idle" /\ ~AllowedEndpoint(proxy.req.query)) =>
    /\ proxy.pc = "done"
    /\ proxy.upstream = <<>>
    /\ proxy.req.method = "GET" =>
         /\ proxy.reply.status = 400
         /\ proxy.reply.body = InvalidEndpointPayload

C9_Witness ==
  /\ proxy.pc = "done"
  /\ proxy.req.method = "GET"
  /\ \A i \in 1..Len(proxy.req.query) : proxy.req.query[i].name /= "endpoint"
  /\ Len(proxy.req.query) = 2
  /\ proxy.reply.status = 400
  /\ proxy.upstream = <<>>

\* C10: a request with a method other than GET and OPTIONS is answered 405,
\* whatever its query, and no upstream call is made for it.
C10_OtherMethodsAre405 ==
  (proxy.pc /= "idle" /\ proxy.req.method \notin {"GET", "OPTIONS"}) =>
    /\ proxy.pc = "done"
    /\ proxy.reply.sent
    /\ proxy.reply.status = 405
    /\ proxy.reply.body = MethodNotAllowedPayload
    /\ proxy.upstream = <<>>

C10_Witness ==
  /\ proxy.pc = "done"
  /\ proxy.req.method = "HEAD"
  /\ AllowedEndpoint(proxy.req.query)
  /\ proxy.reply.status = 405
  /\ proxy.upstream = <<>>

\* C11: an OPTIONS request is answered 200 with no body at once, whatever its
\* endpoint parameter, and no upstream call is made for it.
C11_PreflightIs200NoBody ==
  (proxy.pc /= "idle" /\ proxy.req.method = "OPTIONS") =>
    /\ proxy.pc = "done"
    /\ proxy.reply.sent
    /\ proxy.reply.status = 200
    /\ proxy.reply.body = EmptyBody
    /\ proxy.upstream = <<>>

C11_Witness ==
  /\ proxy.pc = "done"
  /\ proxy.req.method = "OPTIONS"
  /\ ~AllowedEndpoint(proxy.req.query)
  /\ proxy.req.query /= <<>>
  /\ proxy.reply.status = 200
  /\ proxy.reply.body.kind = "empty"

\* The incoming parameters other than endpoint, one name and value per occurrence
RECURSIVE Occurrences(_, _)
Occurrences(name, vals) ==
  IF vals = <<>> THEN <<>>
  ELSE <<[name |-> name, value |-> <<Head(vals)>>]>> \o Occurrences(name, Tail(vals))

RECURSIVE PassThrough(_)
PassThrough(query) ==
  IF query = <<>> THEN <<>>
  ELSE IF Head(query).name = "endpoint" THEN PassThrough(Tail(query))
  ELSE Occurrences(Head(query).name, Head(query).vals) \o PassThrough(Tail(query))

\* C12: the one upstream request of an allowed GET targets /v2/<endpoint>, has the
\* X-Api-Key header, and its query parameters are exactly the incoming ones other
\* than endpoint, each occurrence with its name and value unchanged.
C12_ParametersForwardedUnchanged ==
  \A i \in 1..Len(proxy.upstream) :
    /\ Len(proxy.upstream) = 1
    /\ proxy.upstream[i].base = <<"https://newsapi.org/v2">>
    /\ \E j \in 1..Len(proxy.req.query) :
         /\ proxy.req.query[j].name = "endpoint"
         /\ proxy.req.query[j].vals = <<proxy.upstream[i].path>>
    /\ \E h \in 1..Len(proxy.upstream[i].headers) :
         proxy.upstream[i].headers[h].name = "X-Api-Key"
    /\ proxy.upstream[i].query = PassThrough(proxy.req.query)

\* The credential's value occurs in the string
Leaks(string) == serverKey /= Undefined /\ Includes(string, serverKey.v)

\* C13: when the forwarding throws (the catch block ran and logged), the handler
\* answers 500 with a payload that has an error field, and the credential's value
\* is in no string of the payload and in no logged error.
C13_ForwardingFailureIs500NoLeak ==
  (proxy.pc = "done" /\ proxy.log /= <<>>) =>
    /\ proxy.reply.status = 500
    /\ proxy.reply.body.kind = "object"
    /\ "error" \in DOMAIN proxy.reply.body.obj
    /\ \A k \in DOMAIN proxy.reply.body.obj : ~Leaks(proxy.reply.body.obj[k].v)
    /\ \A i \in 1..Len(proxy.log) : ~Leaks(proxy.log[i].message)

C13_Witness ==
  /\ proxy.pc = "done"
  /\ serverKey /= Undefined
  /\ Len(proxy.log) = 1
  /\ proxy.response = NoResponse
  /\ proxy.reply.status = 500
  /\ proxy.reply.body.obj["message"] = JStr(<<"Load", "failed">>)

\* C18: with the credential absent, a call of fetchNews or fetchTopHeadlines fails
\* at once with the missing-credential error and makes no network call, and the
\* handler makes no upstream call either.
C18_MissingCredentialIsDetected ==
  /\ (API_KEY = Undefined /\ client.pc /= "idle") =>
       /\ client.pc = "done"
       /\ client.requests = <<>>
       /\ client.outcome.error.message = ApiKeyMissingMsg
  /\ (serverKey = Undefined /\ proxy.pc /= "idle") => proxy.upstream = <<>>

\* The credential's value occurs in one of the headers
InHeaders(headers, key) ==
  key /= Undefined /\ \E h \in 1..Len(headers) : Includes(headers[h].value, key.v)

\* C14: no request that fetchNews or fetchTopHeadlines issues from the browser
\* carries the credential's value, and no answer of the handler carries it.
C14_CredentialStaysOutOfBrowser ==
  /\ \A i \in 1..Len(client.requests) :
       /\ ~InHeaders(client.requests[i].headers, API_KEY)
       /\ ~(API_KEY /= Undefined /\ Includes(client.requests[i].search, API_KEY.v))
  /\ proxy.reply.sent =>
       /\ ~InHeaders(proxy.reply.headers, serverKey)
       /\ \A k \in DOMAIN proxy.reply.body.obj : ~Leaks(proxy.reply.body.obj[k].v)

\* How the receiving server reads a query string: the pieces between "&", each a
\* name, "=", and a percent-encoded value
RECURSIVE FirstPiece(_, _)
FirstPiece(s, sep) ==
  IF s = <<>> \/ Head(s) = sep THEN <<>> ELSE <<Head(s)>> \o FirstPiece(Tail(s), sep)

AfterFirst(s, sep) == SubSeq(s, Len(FirstPiece(s, sep)) + 2, Len(s))

RECURSIVE SplitOn(_, _)
SplitOn(s, sep) ==
  IF Len(FirstPiece(s, sep)) = Len(s) THEN <<s>>
  ELSE <<FirstPiece(s, sep)>> \o SplitOn(AfterFirst(s, sep), sep)

RECURSIVE decodeURIComponent(_)
decodeURIComponent(s) ==
  IF s = <<>> THEN <<>>
  ELSE IF Head(s) /= "%" THEN <<Head(s)>> \o decodeURIComponent(Tail(s))
  ELSE IF Len(s) >= 3 /\ SubSeq(s, 2, 3) \in {<<"2", "0">>, <<"2", "6">>, <<"2", "5">>}
  THEN <<CASE SubSeq(s, 2, 3) = <<"2", "0">> -> " "
           [] SubSeq(s, 2, 3) = <<"2", "6">> -> "&"
           [] OTHER -> "%">>
         \o decodeURIComponent(SubSeq(s, 4, Len(s)))
  ELSE <<"URIError">>

ParseSearch(search) ==
  LET pieces == SplitOn(search, "&")
  IN  [i \in 1..Len(pieces) |->
         [name |-> FirstPiece(pieces[i], "="),
          value |-> decodeURIComponent(AfterFirst(pieces[i], "="))]]

QueryParam(name, value) == [name |-> <<name>>, value |-> value]

\* C15 as stated: the request of fetchTopHeadlines targets top-headlines with
\* country=us and pageSize=10 and no other query parameter.
C15_HeadlinesHasTwoParameters ==
  (client.fn = "fetchTopHeadlines" /\ client.requests /= <<>>) =>
    /\ client.requests[1].path = "top-headlines"
    /\ ParseSearch(client.requests[1].search) =
         <<QueryParam("country", <<"us">>), QueryParam("pageSize", <<"10">>)>>

\* C15 as amended: the request of fetchTopHeadlines targets top-headlines with
\* country=us, pageSize=10 and a third parameter, from, holding the time one day
\* before the call; it has no other query parameter.
C15_HeadlinesHasFromParameter ==
  (client.fn = "fetchTopHeadlines" /\ client.requests /= <<>>) =>
    /\ client.requests[1].path = "top-headlines"
    /\ \E now \in Clock :
         ParseSearch(client.requests[1].search) =
           <<QueryParam("country", <<"us">>), QueryParam("pageSize", <<"10">>),
             QueryParam("from", <<ToString(now - 1)>>)>>

C15_Witness ==
  /\ client.fn = "fetchTopHeadlines"
  /\ client.pc = "awaitFetch"
  /\ Len(client.requests) = 1
  /\ Len(ParseSearch(client.requests[1].search)) = 3

\* C16: for every topic T that is not empty and has no white space at its ends,
\* the request of fetchNews(T) has a parameter q, and its value decodes to T.
C16_TopicSurvivesEncoding ==
  (/\ client.fn = "fetchNews" /\ client.requests /= <<>>
   /\ client.topic /= <<>>
   /\ client.topic[1] /= " " /\ client.topic[Len(client.topic)] /= " ") =>
    /\ client.requests[1].path = "everything"
    /\ ParseSearch(client.requests[1].search)[1] = QueryParam("q", client.topic)
    /\ Len(ParseSearch(client.requests[1].search)) = 4

C16_Witness ==
  /\ client.fn = "fetchNews"
  /\ client.pc = "awaitFetch"
  /\ client.topic = <<"&", " ", "%">>
  /\ ParseSearch(client.requests[1].search)[1].value = client.topic

\* C17: an invocation of fetchNews or fetchTopHeadlines issues at most one
\* outbound call, and once it has failed it makes no further call: it ends with
\* that failure.
C17_OneCallNoRetry ==
  /\ Len(client.requests) <= 1
  /\ client.raised.tag = "throw" => client.pc = "done" /\ client.outcome.tag = "throw"

C17_Witness ==
  /\ client.pc = "done"
  /\ client.raised.origin = "fetch"
  /\ Len(client.requests) = 1
  /\ client.outcome.tag = "throw"

\* ------------------------------------------- the two transport strategies

\* What the proxied client's fetch('/api/news?...') resolves with: the handler's
\* answer (over HTTP/2 a response has no status text)
ProxiedResponse(reply) ==
  [status |-> reply.status, statusText |-> <<>>, body |-> reply.body]

\* The outcome of the direct strategy on the upstream's response, and of the
\* proxied strategy on the handler's answer to it: the same try and catch blocks
DirectOutcome(response) == ThroughCatch(HandleResponse(response))
ProxiedOutcome(reply) == ThroughCatch(HandleResponse(ProxiedResponse(reply)))

\* The kind of an outcome, read off the error the caller gets
KindOf(outcome) ==
  CASE outcome.tag = "return" -> "Succeeded"
    [] outcome.tag = "throw" /\ outcome.error.message = NetworkMsg -> "NetworkError"
    [] outcome.tag = "throw" /\ outcome.error.message = InvalidKeyMsg -> "InvalidCredential"
    [] outcome.tag = "throw" /\ outcome.error.message = RateLimitMsg -> "RateLimited"
    [] outcome.tag = "throw" /\ outcome.error.message \notin {NetworkMsg, InvalidKeyMsg, RateLimitMsg}
         /\ outcome.origin \in {"http", "body"} -> "UpstreamError"
    [] OTHER -> "UnknownError"

\* C19: for the same request and the same upstream response, the direct strategy
\* and the proxied strategy end alike: with the same article list, or with errors
\* of the same kind.
C19_StrategiesAgree ==
  Forwarded =>
    /\ KindOf(DirectOutcome(proxy.response)) = KindOf(ProxiedOutcome(proxy.reply))
    /\ DirectOutcome(proxy.response).value = ProxiedOutcome(proxy.reply).value

\* ------------------------------------------------------ overlapping searches

\* Every handler that was started has run to its end
AllCallsCompleted == app.pending = <<>> /\ app.last /= Pending

\* What the page shows for one call's outcome alone
ShownFor(outcome) ==
  IF outcome.tag = "return"
  THEN NewsList(outcome.value, FALSE, Null)
  ELSE NewsList(JArr(<<>>), FALSE, JStr(outcome.error.message))

\* C20: once every call has completed, the error and the articles of the page are
\* those of the call that completed most recently: its articles and no error if
\* it succeeded, its message and no articles if it failed; and so is what the
\* page shows.
C20_LastCompletedCallIsShown ==
  AllCallsCompleted =>
    /\ app.last.tag = "return" =>
         app.error = Null /\ app.articles = app.last.value
    /\ app.last.tag = "throw" =>
         app.error = JStr(app.last.error.message) /\ app.articles = JArr(<<>>)
    /\ Render(app) = ShownFor(app.last)

\* ------------------------------------------------------------ CORS headers

\* The response has a header of that name with exactly that value
HasHeader(headers, name, value) ==
  \E h \in 1..Len(headers) : headers[h].name = name /\ headers[h].value = value

\* C21: every response the handler sends (the preflight's 200, 405, 400, the
\* forwarded response, 500) has the three CORS headers: any origin, the methods
\* GET and OPTIONS, the request header Content-Type.
C21_EveryResponseHasCorsHeaders ==
  proxy.reply.sent =>
    /\ HasHeader(proxy.reply.headers, "Access-Control-Allow-Origin", <<"*">>)
    /\ HasHeader(proxy.reply.headers, "Access-Control-Allow-Methods", <<"GET,", "OPTIONS">>)
    /\ HasHeader(proxy.reply.headers, "Access-Control-Allow-Headers", <<"Content-Type">>)

C21_Witness ==
  /\ proxy.reply.sent
  /\ proxy.reply.status = 500
  /\ proxy.response /= NoResponse
  /\ Len(proxy.reply.headers) = 3

\* ------------------------------------------------------------ the search bar

\* C22: onSearch is invoked only when the input is non-empty after trimming and
\* always with the trimmed input, so no waiting topic search has an empty or
\* untrimmed topic; and the Show button is disabled exactly when the trimmed
\* input is empty.
C22_SearchOnlyWithTrimmedInput ==
  /\ \A i \in 1..Len(bar.started) :
       bar.started[i] /= <<>> /\ bar.started[i] = Trim(bar.inputValue)
  /\ \A i \in 1..Len(app.pending) :
       app.pending[i].fn = "fetchNews" =>
         app.pending[i].topic /= <<>> /\ Trim(app.pending[i].topic) = app.pending[i].topic
  /\ ShowDisabled(bar.inputValue) <=> (Trim(bar.inputValue) = <<>>)

C22_Witness ==
  /\ bar.action = "show"
  /\ bar.inputValue = <<"a", " ">>
  /\ bar.started = <<(<<"a">>)>>
  /\ app.pending /= <<>>

\* C23: one user action starts exactly one search: after Enter in the topic input
\* or a click on Show, with a non-blank input, onSearch was invoked exactly once
\* (and never more than once).
C23_OneActionOneSearch ==
  bar.action \in {"enter", "show"} =>
    /\ Len(bar.started) <= 1
    /\ Trim(bar.inputValue) /= <<>> => Len(bar.started) = 1

\* ------------------------------------------------------ a call's lifecycle

\* Where a call is: Validating is the synchronous start of the call and ends
\* within the step that leaves Idle
ClientPhase(c) ==
  CASE c.pc = "idle" -> "Idle"
    [] c.pc \in {"awaitFetch", "awaitJson"} -> "InFlight"
    [] c.pc = "done" /\ c.outcome.tag = "return" -> "Succeeded"
    [] OTHER -> "Failed"

ProxyPhase(p) ==
  CASE p.pc = "idle" -> "Idle"
    [] p.pc \in {"awaitFetch", "awaitJson"} -> "InFlight"
    [] p.pc = "done" /\ p.reply.status \in 200..299 -> "Succeeded"
    [] OTHER -> "Failed"

\* The steps the lifecycle allows; a terminal state is left only for the next call
LifecycleStep(from, to) ==
  \/ from = to
  \/ from = "Idle" /\ to \in {"InFlight", "Failed"}
  \/ from = "InFlight" /\ to \in {"Succeeded", "Failed"}
  \/ from \in {"Succeeded", "Failed"} /\ to = "Idle"

\* C24: every call of fetchNews, fetchTopHeadlines or the handler goes Idle,
\* (Validating,) InFlight, then Succeeded or Failed: it is in flight only when
\* its validation passed, it succeeds only after having been in flight, a
\* terminal state has one settled outcome and is left unchanged until the next
\* call, and every step is one the lifecycle allows. (The preflight's 200, which
\* is not a search call, is the one success that was never in flight.)
C24_CallLifecycle ==
  /\ [](/\ ClientPhase(client) = "InFlight" =>
             /\ Truthy(API_KEY)
             /\ client.fn = "fetchNews" => ~Blank(client.topic)
             /\ Len(client.requests) = 1
             /\ client.outcome = Pending
        /\ ClientPhase(client) = "Succeeded" =>
             Len(client.requests) = 1 /\ client.response /= NoResponse
        /\ client.pc = "done" => client.outcome.tag \in {"return", "throw"}
        /\ ProxyPhase(proxy) = "InFlight" =>
             /\ proxy.req.method = "GET"
             /\ AllowedEndpoint(proxy.req.query)
             /\ Len(proxy.upstream) = 1
             /\ ~proxy.reply.sent
        /\ (ProxyPhase(proxy) = "Succeeded" /\ proxy.req.method /= "OPTIONS") =>
             Len(proxy.upstream) = 1 /\ proxy.response /= NoResponse
        /\ proxy.pc = "done" <=> proxy.reply.sent)
  /\ [][/\ LifecycleStep(ClientPhase(client), ClientPhase(client'))
        /\ client.pc = "done" => (client' = client \/ client' = IdleClient)
        /\ \/ LifecycleStep(ProxyPhase(proxy), ProxyPhase(proxy'))
           \/ ProxyPhase(proxy) = "Idle" /\ proxy'.req.method = "OPTIONS"
        /\ proxy.pc = "done" => (proxy' = proxy \/ proxy' = IdleProxy)]_vars

C24_Witness ==
  /\ client.pc = "done"
  /\ client.fn = "fetchNews"
  /\ Len(client.requests) = 1
  /\ client.response /= NoResponse
  /\ client.outcome.tag = "throw"
  /\ serverKey /= Undefined

\* ------------------------------------------------- malformed article lists

\* The response is a 2xx whose body is a JSON object, without the error
\* indicator, with an article collection that is present and not a list
MalformedArticles(response) ==
  /\ Ok(response)
  /\ response.body.kind = "object"
  /\ Get(response.body.obj, "status") /= JStr(<<"error">>)
  /\ Get(response.body.obj, "articles").t \in {"string", "object"}

\* C25: a 2xx response whose article collection is present but not a list ends
\* the call with an error (the upstream error), never with an empty list; and no
\* call returns a value that is not a list.
C25_MalformedArticlesIsUpstreamError ==
  ClientDone =>
    /\ (Received /\ MalformedArticles(client.response)) =>
         client.outcome.tag = "throw" /\ client.outcome.origin = "body"
    /\ client.outcome.tag = "return" => client.outcome.value.t = "array"

\* ------------------------------------------------------- rendering a card

\* The optional field is absent from the article
Absent(value) == value.t \in {"undefined", "null"}

\* C26: the card of every article renders without raising an error, whichever of
\* description, image URL, source and publication time are absent; an absent
\* description and an absent image URL are replaced by their fallbacks.
C26_AbsentFieldsAreTolerated ==
  item.rendered.tag /= "pending" =>
    /\ item.rendered.tag = "return"
    /\ Absent(item.article.description) =>
         item.rendered.card.description = <<"No", "description", "available">>
    /\ Absent(item.article.urlToImage) =>
         item.rendered.card.src = <<"https://via.placeholder.com/300x200?text=No+Image">>

\* ------------------------------------------------ loading, error and articles

\* C27: loading is true whenever at least one call of handleSearch or
\* handleLucky is still waiting for its outcome, also when searches overlap.
C27_LoadingWhileInFlight ==
  app.pending /= <<>> => app.loading

\* C28: a non-null error comes with an empty articles list: the state never
\* holds an error message together with a non-empty result list.
C28_ErrorImpliesNoArticles ==
  app.error /= Null => app.articles = JArr(<<>>)

\* C29: once no call is in flight loading is false, and, every outbound call
\* eventually resolving or rejecting, loading always becomes false again.
C29_LoadingEnds ==
  /\ [](app.pending = <<>> => ~app.loading)
  /\ app.loading ~> ~app.loading

C29_Witness ==
  /\ app.pending = <<>>
  /\ ~app.loading
  /\ app.hasSearched
  /\ app.last.tag = "throw"
  /\ Render(app).shows = "error"

\* ------------------------------------------------- one response, one call

\* C30: every invocation of the handler sends exactly one response (none before
\* it ends, one when it has ended) and makes at most one upstream call, and it
\* makes an upstream call only when the method is GET and the endpoint parameter
\* is top-headlines or everything.
C30_OneResponseAtMostOneCall ==
  /\ proxy.pc = "done" => proxy.sends = 1 /\ proxy.reply.sent
  /\ proxy.pc /= "done" => proxy.sends = 0 /\ ~proxy.reply.sent
  /\ Len(proxy.upstream) <= 1
  /\ proxy.upstream /= <<>> =>
       /\ proxy.req.method = "GET"
       /\ \E i \in 1..Len(proxy.req.query) :
            /\ proxy.req.query[i].name = "endpoint"
            /\ proxy.req.query[i].vals \in {<<"top-headlines">>, <<"everything">>}
       /\ proxy.upstream[1].path \in {"top-headlines", "everything"}

C30_Witness ==
  /\ proxy.pc = "done"
  /\ proxy.sends = 1
  /\ Len(proxy.upstream) = 1
  /\ Len(proxy.log) = 1
  /\ proxy.response /= NoResponse
  /\ proxy.reply.status = 500

====
